---- MODULE Spec2Model ----
(***************************************************************************)
(* System catalog service (src/main.py): a table of system records, a     *)
(* directory tree of uploaded executables, and six HTTP handlers.          *)
(*                                                                         *)
(* Each handler runs to completion on its own session, so every handler   *)
(* is one action.  The variable `last` holds the request just served and  *)
(* the response the client received for it, until the session is closed   *)
(* and the server waits for the next request.                              *)
(*                                                                         *)
(* Representation of the program's values:                                 *)
(*  - a string that the code turns into a path (nome, arquivo, the upload  *)
(*    filename) is the sequence of its "/"-separated segments, as          *)
(*    pathlib.Path splits it; the empty string and "." are <<>>;           *)
(*  - an Optional value is a set with at most one element, None is {};     *)
(*  - paths are relative to the working directory, which is the directory  *)
(*    of main.py (uvicorn is started with "main:app").                     *)
(***************************************************************************)
EXTENDS Integers, Sequences, FiniteSets, TLC

VARIABLES sistemas, nextId, dirs, files, nWrites, last

vars == <<sistemas, nextId, dirs, files, nWrites, last>>

\* ------------------------------------------------------------------ bounds
\* at most MaxSistemas successful criar_sistema requests
MaxSistemas == 2
\* at most MaxWrites requests in all that change a row (atualizar_cadastro_sistema)
\* or reach the file tree (adicionar_arquivo_sistema)
MaxWrites == 2

\* ------------------------------------------------------------ input values
None == {}

Some(x) == {x}

\* the value held by a non-None Optional
The(o) == CHOOSE x \in o : TRUE

\* system names a client may send: "A" and "A/1"
Nomes == {<<"A">>, <<"A", "1">>}

\* name filters a client may send: the names and the empty string
Filtros == Nomes \cup {<<>>}

\* version numbers a client may send in a request body
Versions == {0, 2}

\* arquivo strings a client may send: "" and "static/sistemas/A/1/f.exe"
ArquivoA == <<"static", "sistemas", "A", "1", "f.exe">>

Arquivos == {<<>>, ArquivoA}

\* upload filenames: ".", "1" and "f.exe"
Filenames == {<<>>, <<"1">>, <<"f.exe">>}

\* uploaded file contents
Bytes == {"MZ1", "MZ2"}

ExeType == "application/x-msdownload"

ContentTypes == {ExeType, "text/plain"}

\* ids a client may name in a path: the assigned ones and one more
Ids == 1..(MaxSistemas + 1)

\* the multipart uploads a client may send: an executable under each filename,
\* a second content for "f.exe", and a text file
Uploads ==
    {u \in [content_type : ContentTypes, filename : Filenames, data : Bytes] :
        /\ u.content_type # ExeType => u.filename = <<"f.exe">>
        /\ u.data # "MZ1" => u.filename = <<"f.exe">> /\ u.content_type = ExeType}

\* ----------------------------------------------------------------- strings
Digit(d) == <<"0", "1", "2", "3", "4", "5", "6", "7", "8", "9">>[d + 1]

RECURSIVE StrNat(_)
StrNat(n) == IF n < 10 THEN Digit(n) ELSE StrNat(n \div 10) \o Digit(n % 10)

\* str(sistema.version)
Str(n) == IF n < 0 THEN "-" \o StrNat(-n) ELSE StrNat(n)

\* f'{sistema.nome}.exe' as path segments
NomeExe(nome) ==
    IF nome = <<>> THEN <<".exe">>
    ELSE [nome EXCEPT ![Len(nome)] = @ \o ".exe"]

\* --------------------------------------------------------------- the table
\* SistemaDB: id primary key, nome NOT NULL, version NOT NULL, arquivo nullable
SistemaDB(id, nome, version, arquivo) ==
    [id |-> id, nome |-> nome, version |-> version, arquivo |-> arquivo]

\* db.query(SistemaDB).filter(SistemaDB.id == id): id is an Optional[int];
\* "id = NULL" matches no row
FilterById(table, id) == {r \in table : Some(r.id) = id}

\* db.query(SistemaDB).filter(SistemaDB.nome == nome)
FilterByNome(table, nome) == {r \in table : r.nome = nome}

\* .first(): a row or None
First(rows) == IF rows = {} THEN None ELSE Some(CHOOSE r \in rows : TRUE)

\* SistemaResponse.model_validate(row)
SistemaResponse(r) ==
    [id |-> r.id, nome |-> r.nome, version |-> r.version, arquivo |-> r.arquivo]

\* ------------------------------------------------------------- file system
Prefixes(p) == {SubSeq(p, 1, k) : k \in 0..Len(p)}

Parent(p) == SubSeq(p, 1, Len(p) - 1)

\* Path(p).exists()
Exists(fdirs, ffiles, p) == p \in fdirs \/ p \in DOMAIN ffiles

\* Path.mkdir(parents=True, exist_ok=True) raises when a regular file sits
\* at the path or at one of its parents
MkdirRaises(ffiles, p) == \E q \in Prefixes(p) : q \in DOMAIN ffiles

MkdirParents(fdirs, p) == fdirs \cup Prefixes(p)

\* open(p, "wb") raises when p is a directory or its parent is no directory
OpenRaises(fdirs, p) == p \in fdirs \/ Parent(p) \notin fdirs

\* arq.write(data) on the opened (created or truncated) file
WriteFile(ffiles, p, data) ==
    [q \in DOMAIN ffiles \cup {p} |-> IF q = p THEN data ELSE ffiles[q]]

\* ------------------------------------------------- outcomes and exceptions
Return(status, body) == [kind |-> "return", status |-> status, body |-> body]

\* raise HTTPException(status_code=status)
RaiseHTTP(status) == [kind |-> "HTTPException", status |-> status, body |-> <<>>]

\* any other exception raised inside the try block
RaiseOther == [kind |-> "Exception", status |-> 0, body |-> <<>>]

Error(status) == [status |-> status, body |-> <<>>]

Response(out) == [status |-> out.status, body |-> out.body]

\* try: ... except Exception: raise HTTPException(500)
ExceptException(out) ==
    IF out.kind = "return" THEN Response(out) ELSE Error(500)

\* try: ... except HTTPException: raise / except Exception: raise HTTPException(500)
ExceptHTTPThenException(out) ==
    CASE out.kind = "return" -> Response(out)
      [] out.kind = "HTTPException" -> Error(out.status)
      [] OTHER -> Error(500)

\* try: ... except Exception: raise HTTPException(500) / except HTTPException: raise
\* HTTPException is an Exception, so the first clause takes it
ExceptExceptionThenHTTP(out) ==
    CASE out.kind = "return" -> Response(out)
      [] out.kind \in {"HTTPException", "Exception"} -> Error(500)
      [] OTHER -> Error(out.status)

\* -------------------------------------------------------------------- Init
NoRequest == [op |-> "none", req |-> <<>>, status |-> 0, body |-> <<>>]

Init ==
    /\ sistemas = {}
    /\ nextId = 1
    /\ dirs = {<<>>}
    /\ files = <<>>
    /\ nWrites = 0
    /\ last = NoRequest

\* no request is being served
Idle == last = NoRequest

Served(op, req, resp) ==
    [op |-> op, req |-> req, status |-> resp.status, body |-> resp.body]


\* ---------------------------------------------------------- request bodies
\* SistemaCreate (SistemaBase): id, version and arquivo are Optional with
\* default None, nome is required; fields_set is pydantic's model_fields_set
OptionalFields == {"id", "version", "arquivo"}

SistemaCreate ==
    {b \in [id : {None} \cup {Some(i) : i \in 1..MaxSistemas},
            nome : Nomes,
            version : {None} \cup {Some(v) : v \in Versions},
            arquivo : {None} \cup {Some(a) : a \in Arquivos},
            fields_set : SUBSET OptionalFields] :
        /\ b.id # None <=> "id" \in b.fields_set
        /\ b.version # None => "version" \in b.fields_set
        /\ b.arquivo # None => "arquivo" \in b.fields_set}

\* the bodies sent to POST /sistema/: nome alone, or with id 1, a version and
\* a file path as well
CriarBodies ==
    {b \in SistemaCreate :
        \/ b.fields_set = {}
        \/ b.id = Some(1) /\ b.version # None /\ b.arquivo = Some(ArquivoA)}

\* the bodies sent to PATCH /sistema/: any fields with an id, nome alone when
\* the id is left out
AtualizarBodies ==
    {b \in SistemaCreate : b.id = None => b.fields_set = {}}

\* Python truthiness of an Optional[str]: None and "" are false
Truthy(s) == s # None /\ The(s) # <<>>

\* ------------------------------------------------------------ listar_sistemas
listar_sistemas(table, sistema_nome) ==
    ExceptException(
        IF Truthy(sistema_nome)
        THEN Return(200, {SistemaResponse(r) : r \in FilterByNome(table, The(sistema_nome))})
        ELSE Return(200, {SistemaResponse(r) : r \in table}))

ListarSistemas ==
    \E sistema_nome \in {None} \cup {Some(n) : n \in Filtros} :
        /\ Idle
        /\ last' = Served("listar_sistemas", [sistema_nome |-> sistema_nome],
                          listar_sistemas(sistemas, sistema_nome))
        /\ UNCHANGED <<sistemas, nextId, dirs, files, nWrites>>

\* --------------------------------------------------- download_arquivo_sistema
StorageRoot == <<"static", "sistemas">>

FileResponse(path, filename) == [path |-> path, filename |-> filename]

\* static/sistemas/<nome>/<version>/<nome>.exe
ArquivoPath(sistema) ==
    StorageRoot \o sistema.nome \o <<Str(sistema.version)>> \o NomeExe(sistema.nome)

\* variant: the existence check of the fallback path (commented out in the
\* source) is active
DownloadBodyChecked(table, fdirs, ffiles, id_sistema) ==
    LET sistema == First(FilterById(table, Some(id_sistema))) IN
    IF sistema = None \/ ~Truthy(The(sistema).arquivo)
    THEN RaiseHTTP(404)
    ELSE IF Exists(fdirs, ffiles, The(The(sistema).arquivo))
    THEN Return(200, FileResponse(The(The(sistema).arquivo), NomeExe(The(sistema).nome)))
    ELSE IF ~Exists(fdirs, ffiles, ArquivoPath(The(sistema)))
    THEN RaiseHTTP(404)
    ELSE Return(200, FileResponse(ArquivoPath(The(sistema)), NomeExe(The(sistema).nome)))

DownloadBody(table, fdirs, ffiles, id_sistema) ==
    LET sistema == First(FilterById(table, Some(id_sistema))) IN
    IF sistema = None \/ ~Truthy(The(sistema).arquivo)
    THEN RaiseHTTP(404)
    ELSE IF Exists(fdirs, ffiles, The(The(sistema).arquivo))
    THEN Return(200, FileResponse(The(The(sistema).arquivo), NomeExe(The(sistema).nome)))
    ELSE Return(200, FileResponse(ArquivoPath(The(sistema)), NomeExe(The(sistema).nome)))

DownloadExcept(out) == ExceptHTTPThenException(out)

download_arquivo_sistema(table, fdirs, ffiles, id_sistema) ==
    DownloadExcept(DownloadBody(table, fdirs, ffiles, id_sistema))

DownloadArquivoSistema ==
    \E id_sistema \in Ids :
        /\ Idle
        /\ last' = Served("download", [id |-> id_sistema],
                          download_arquivo_sistema(sistemas, dirs, files, id_sistema))
        /\ UNCHANGED <<sistemas, nextId, dirs, files, nWrites>>

\* ------------------------------------------------------ listar_sistema_por_id
ListarPorIdBody(table, sistema_id) ==
    LET sistema == First(FilterById(table, Some(sistema_id))) IN
    IF sistema = None THEN RaiseHTTP(404)
    ELSE Return(200, SistemaResponse(The(sistema)))

ListarPorIdExcept(out) == ExceptExceptionThenHTTP(out)

listar_sistema_por_id(table, sistema_id) ==
    ListarPorIdExcept(ListarPorIdBody(table, sistema_id))

ListarSistemaPorId ==
    \E sistema_id \in Ids :
        /\ Idle
        /\ last' = Served("listar_sistema_por_id", [id |-> sistema_id],
                          listar_sistema_por_id(sistemas, sistema_id))
        /\ UNCHANGED <<sistemas, nextId, dirs, files, nWrites>>

\* -------------------------------------------------------------- criar_sistema
\* SistemaDB(nome=sistema.nome, version=1); the id comes from the table's
\* sequence at commit and arquivo is left NULL
\* variant: the row is built from the whole request body
NovoSistemaFromBody(sistema, id) ==
    SistemaDB(id, sistema.nome,
              IF sistema.version = None THEN 1 ELSE The(sistema.version),
              sistema.arquivo)

NovoSistema(sistema, id) == SistemaDB(id, sistema.nome, 1, None)

CriarSistema ==
    \E sistema \in CriarBodies :
        /\ Idle
        /\ nextId <= MaxSistemas
        /\ LET novo_sistema == NovoSistema(sistema, nextId) IN
            /\ sistemas' = sistemas \cup {novo_sistema}
            /\ last' = Served("criar_sistema", sistema,
                              ExceptException(Return(200, SistemaResponse(novo_sistema))))
        /\ nextId' = nextId + 1
        /\ UNCHANGED <<dirs, files, nWrites>>

\* ----------------------------------------------------- atualizar_cadastro_sistema
\* sistema_info.model_dump(exclude_unset=True, exclude={'id'}): the fields the
\* request sets, id left out; nome is required, so it is always there
\* variant: model_dump(exclude={'id'}) without exclude_unset
ModelDumpAll(sistema_info) ==
    [f \in {"nome", "version", "arquivo"} |-> sistema_info[f]]

ModelDump(sistema_info) ==
    [f \in {"nome"} \cup (sistema_info.fields_set \ {"id"}) |-> sistema_info[f]]

\* UPDATE sistemas SET <values> on one row
UpdateRow(r, values) ==
    SistemaDB(r.id,
              IF "nome" \in DOMAIN values THEN values.nome ELSE r.nome,
              IF "version" \in DOMAIN values THEN The(values.version) ELSE r.version,
              IF "arquivo" \in DOMAIN values THEN values.arquivo ELSE r.arquivo)

\* version is NOT NULL: setting it to NULL on a matched row is an IntegrityError
ViolatesNotNull(values) == "version" \in DOMAIN values /\ values.version = None

\* query.filter(id == sistema_info.id).update(values): the table afterwards
QueryUpdate(table, id, values) ==
    {IF r \in FilterById(table, id) THEN UpdateRow(r, values) ELSE r : r \in table}

\* the handler's run: the outcome of the try block and the committed table
AtualizarBody(table, sistema_info) ==
    LET values == ModelDump(sistema_info)
        matched == FilterById(table, sistema_info.id)
    IN  IF matched # {} /\ ViolatesNotNull(values)
        THEN [out |-> RaiseOther, table |-> table]
        ELSE IF Cardinality(matched) = 0
        THEN [out |-> RaiseHTTP(404), table |-> table]
        ELSE [out |-> Return(200, "Sucesso!"),
              table |-> QueryUpdate(table, sistema_info.id, values)]

AtualizarExcept(out) == ExceptExceptionThenHTTP(out)

AtualizarCadastroSistema ==
    \E sistema_info \in AtualizarBodies :
        LET run == AtualizarBody(sistemas, sistema_info) IN
        /\ Idle
        /\ run.out.kind = "return" => nWrites < MaxWrites
        /\ sistemas' = run.table
        /\ nWrites' = IF run.out.kind = "return" THEN nWrites + 1 ELSE nWrites
        /\ last' = Served("atualizar", sistema_info, AtualizarExcept(run.out))
        /\ UNCHANGED <<nextId, dirs, files>>

\* ------------------------------------------------------ adicionar_arquivo_sistema
\* variant: the content type is not checked
IsExecutableUnchecked(content_type) == TRUE

\* arquivo.content_type == 'application/x-msdownload'
IsExecutable(content_type) == content_type = ExeType

\* variant: the directory of the next version (nova_versao)
BaseDirNovaVersao(sistema) ==
    StorageRoot \o sistema.nome \o <<Str(sistema.version + 1)>>

\* Path(f"static/sistemas/{sistema.nome}/{sistema.version}")
BaseDir(sistema) == StorageRoot \o sistema.nome \o <<Str(sistema.version)>>

\* base_dir / arquivo.filename
Destino(sistema, filename) == BaseDir(sistema) \o filename

\* variant: the commented-out lines are active, version and arquivo are
\* written back and committed
UploadRecordPersist(sistema, filename) ==
    SistemaDB(sistema.id, sistema.nome, sistema.version + 1,
              Some(Destino(sistema, filename)))

\* the record as the handler leaves it: the lines that would set version and
\* arquivo and commit are commented out
UploadRecord(sistema, filename) == sistema

\* the handler's run: the outcome of the try block, the table and the file
\* tree afterwards
AdicionarBody(table, fdirs, ffiles, sistema_id, content_type, filename, data) ==
    LET sistema == First(FilterById(table, Some(sistema_id)))
        keep == [table |-> table, dirs |-> fdirs, files |-> ffiles]
    IN  IF ~IsExecutable(content_type)
        THEN [out |-> RaiseHTTP(400)] @@ keep
        ELSE IF sistema = None
        THEN [out |-> RaiseHTTP(404)] @@ keep
        ELSE IF MkdirRaises(ffiles, BaseDir(The(sistema)))
        THEN [out |-> RaiseOther] @@ keep
        ELSE LET made == MkdirParents(fdirs, BaseDir(The(sistema)))
                 destino == Destino(The(sistema), filename)
             IN  IF OpenRaises(made, destino)
                 THEN [out |-> RaiseOther, table |-> table, dirs |-> made, files |-> ffiles]
                 ELSE [out |-> Return(201, "Sucesso!"),
                       table |-> (table \ sistema) \cup {UploadRecord(The(sistema), filename)},
                       dirs |-> made,
                       files |-> WriteFile(ffiles, destino, data)]

AdicionarExcept(out) == ExceptHTTPThenException(out)

AdicionarArquivoSistema ==
    \E sistema_id \in Ids, arquivo \in Uploads :
        LET run == AdicionarBody(sistemas, dirs, files, sistema_id,
                                 arquivo.content_type, arquivo.filename, arquivo.data)
            touches == run.out.kind \in {"return", "Exception"}
        IN
        /\ Idle
        /\ touches => nWrites < MaxWrites
        /\ sistemas' = run.table
        /\ dirs' = run.dirs
        /\ files' = run.files
        /\ nWrites' = IF touches THEN nWrites + 1 ELSE nWrites
        /\ last' = Served("adicionar_arquivo",
                          [id |-> sistema_id, content_type |-> arquivo.content_type,
                           filename |-> arquivo.filename, data |-> arquivo.data],
                          AdicionarExcept(run.out))
        /\ UNCHANGED nextId

\* ------------------------------------------------------------------ Database
\* the with-block is left: db.close(), and the response has gone to the client
CloseSession ==
    /\ ~Idle
    /\ last' = NoRequest
    /\ UNCHANGED <<sistemas, nextId, dirs, files, nWrites>>

\* ------------------------------------------------------------- specification
Next ==
    \/ CloseSession
    \/ ListarSistemas
    \/ DownloadArquivoSistema
    \/ ListarSistemaPorId
    \/ CriarSistema
    \/ AtualizarCadastroSistema
    \/ AdicionarArquivoSistema

Spec == Init /\ [][Next]_vars

\* the service used without PATCH /sistema/: create, upload and the reads
NextSemAtualizar ==
    \/ CloseSession
    \/ ListarSistemas
    \/ DownloadArquivoSistema
    \/ ListarSistemaPorId
    \/ CriarSistema
    \/ AdicionarArquivoSistema

SpecSemAtualizar == Init /\ [][NextSemAtualizar]_vars

\* ------------------------------------------------------------------- claims
\* the rows of the table that a request's id names
Named(table, id) == {r \in table : r.id = id}

TypeOK ==
    /\ \A r \in sistemas : r.id \in 1..(nextId - 1)
    /\ \A r, q \in sistemas : r.id = q.id => r = q
    /\ nextId \in 1..(MaxSistemas + 1)
    /\ nWrites \in 0..MaxWrites
    /\ DOMAIN files \cap dirs = {}

\* C1: for an id that matches no record, get-by-id, update (an absent id
\* included) and download all end with 404
C1_NotFoundForUnknownId ==
    /\ last.op \in {"listar_sistema_por_id", "download"}
          /\ Named(sistemas, last.req.id) = {}
       => last.status = 404
    /\ last.op = "atualizar"
          /\ (last.req.id = None \/ Named(sistemas, The(last.req.id)) = {})
       => last.status = 404

\* C2: every stored record has version >= 1
C2_VersionAtLeastOne == \A r \in sistemas : r.version >= 1

\* C3: criar_sistema answers 200 with the stored record, which has the
\* request's nome, version 1, no arquivo and an id no earlier record has;
\* it adds that one row and changes no other
C3_CreateVersionOneNoFile ==
    [][last'.op = "criar_sistema" =>
        /\ last'.status = 200
        /\ last'.body.nome = last'.req.nome
        /\ last'.body.version = 1
        /\ last'.body.arquivo = None
        /\ \A r \in sistemas : r.id # last'.body.id
        /\ sistemas' = sistemas \cup {last'.body}]_vars

\* a second system was created by a request that carried id 1 (in use), a
\* version and a file path
C3_Witness ==
    /\ last.op = "criar_sistema"
    /\ last.req.id = Some(1)
    /\ last.req.version = Some(2)
    /\ last.req.arquivo = Some(ArquivoA)
    /\ last.body.id = 2
    /\ last.body.version = 1
    /\ Cardinality(sistemas) = 2

\* C4: an upload whose content type is not application/x-msdownload ends
\* with 400 for every system_id and leaves the table and the file tree as
\* they were
C4_NonExecutableRejected ==
    [][last'.op = "adicionar_arquivo" /\ last'.req.content_type # ExeType =>
        /\ last'.status = 400
        /\ sistemas' = sistemas
        /\ dirs' = dirs
        /\ files' = files]_vars

\* a text file was uploaded to an existing system and refused
C4_Witness ==
    /\ last.op = "adicionar_arquivo"
    /\ last.req.content_type = "text/plain"
    /\ Named(sistemas, last.req.id) # {}
    /\ last.status = 400

\* C5: with a name filter (the empty string included) the listing is exactly
\* the records with that nome; without a filter it is every record
C5_ListFilterExact ==
    last.op = "listar_sistemas" =>
        /\ last.status = 200
        /\ last.body =
             IF last.req.sistema_nome = None THEN sistemas
             ELSE {r \in sistemas : r.nome = The(last.req.sistema_nome)}

\* the path static/sistemas/<nome>/<version> of a record
RecordDir(r) == <<"static", "sistemas">> \o r.nome \o <<Str(r.version)>>

\* C6 as stated: an executable upload for an existing system_id answers 201
\* and the uploaded bytes are at sistemas/<nome>/<version>/<filename>; for an
\* id with no record it answers 404
C6_UploadAlwaysStores ==
    last.op = "adicionar_arquivo" /\ last.req.content_type = ExeType =>
        IF Named(sistemas, last.req.id) = {}
        THEN last.status = 404
        ELSE LET r == CHOOSE r \in Named(sistemas, last.req.id) : TRUE
                 destino == RecordDir(r) \o last.req.filename
             IN  /\ last.status = 201
                 /\ destino \in DOMAIN files
                 /\ files[destino] = last.req.data

\* C6 amended: an executable upload for an existing system_id either answers
\* 201, and then the uploaded bytes are at sistemas/<nome>/<version>/<filename>
\* (nome and version as they were at the upload) and no other file changed,
\* or answers 500 and writes no file, which happens exactly when a regular
\* file sits on the directory path or the target path is a directory; for an
\* id with no record it answers 404 and creates no directory or file
C6_UploadStoresOrFails ==
    [][last'.op = "adicionar_arquivo" /\ last'.req.content_type = ExeType =>
        IF Named(sistemas, last'.req.id) = {}
        THEN /\ last'.status = 404
             /\ dirs' = dirs
             /\ files' = files
        ELSE LET r == CHOOSE r \in Named(sistemas, last'.req.id) : TRUE
                 dir == RecordDir(r)
                 destino == dir \o last'.req.filename
                 blocked ==
                    \/ \E k \in 0..Len(dir) : SubSeq(dir, 1, k) \in DOMAIN files
                    \/ destino \in dirs
                    \/ \E k \in 0..Len(dir) : SubSeq(dir, 1, k) = destino
             IN  /\ last'.status = IF blocked THEN 500 ELSE 201
                 /\ last'.status = 201 =>
                      /\ dir \in dirs'
                      /\ DOMAIN files' = DOMAIN files \cup {destino}
                      /\ files'[destino] = last'.req.data
                      /\ \A p \in DOMAIN files : p # destino => files'[p] = files[p]
                 /\ last'.status = 500 => files' = files]_vars

\* a system whose version an update had set to 2 received "f.exe", which is
\* now under its directory 2
C6_Witness ==
    /\ last.op = "adicionar_arquivo"
    /\ last.status = 201
    /\ last.req.filename = <<"f.exe">>
    /\ \E r \in Named(sistemas, last.req.id) :
          /\ r.version = 2
          /\ (RecordDir(r) \o <<"f.exe">>) \in DOMAIN files
          /\ files[RecordDir(r) \o <<"f.exe">>] = last.req.data

C8_UpdateOnlyGivenFields ==
    [][last'.op = "atualizar" =>
        /\ {r.id : r \in sistemas'} = {r.id : r \in sistemas}
        /\ Cardinality(sistemas') = Cardinality(sistemas)
        /\ \A r \in sistemas :
             IF Some(r.id) = last'.req.id
             THEN \E q \in sistemas' :
                    /\ q.id = r.id
                    /\ "version" \notin last'.req.fields_set => q.version = r.version
                    /\ "arquivo" \notin last'.req.fields_set => q.arquivo = r.arquivo
             ELSE r \in sistemas']_vars

\* an update that gave a version and no arquivo succeeded on a record whose
\* arquivo an earlier update had set, with another record in the table
C8_Witness ==
    /\ last.op = "atualizar"
    /\ last.status = 200
    /\ last.req.fields_set = {"id", "version"}
    /\ \E r \in sistemas :
          /\ Some(r.id) = last.req.id
          /\ r.version = The(last.req.version)
          /\ r.arquivo = Some(ArquivoA)
    /\ Cardinality(sistemas) = 2

\* C9: download answers 404 exactly when no record has the id or its arquivo
\* is unset or empty; it answers with the file at arquivo when that path
\* exists, and otherwise with sistemas/<nome>/<version>/<nome>.exe, whether
\* or not that exists; the table and the file tree are left as they were
C9_DownloadOutcome ==
    [][last'.op = "download" =>
        LET rows == Named(sistemas, last'.req.id)
            r == CHOOSE r \in rows : TRUE
            semArquivo == rows = {} \/ r.arquivo = None \/ r.arquivo = Some(<<>>)
        IN  /\ last'.status = 404 <=> semArquivo
            /\ ~semArquivo =>
                 /\ last'.status = 200
                 /\ last'.body.filename = NomeExe(r.nome)
                 /\ last'.body.path =
                      IF The(r.arquivo) \in dirs \/ The(r.arquivo) \in DOMAIN files
                      THEN The(r.arquivo)
                      ELSE RecordDir(r) \o NomeExe(r.nome)
            /\ sistemas' = sistemas
            /\ dirs' = dirs
            /\ files' = files]_vars

\* a download for a record whose arquivo names a missing file was answered
\* with the recomputed path, which does not exist either
C9_Witness ==
    /\ last.op = "download"
    /\ last.status = 200
    /\ \E r \in Named(sistemas, last.req.id) :
          /\ r.arquivo = Some(ArquivoA)
          /\ ArquivoA \notin DOMAIN files
          /\ last.body.path = RecordDir(r) \o NomeExe(r.nome)
          /\ last.body.path \notin DOMAIN files

\* C10: without updates every record has arquivo unset and every download
\* ends with 404
C10_NoFileWithoutUpdate ==
    /\ \A r \in sistemas : r.arquivo = None
    /\ last.op = "download" => last.status = 404

\* a download of a system ended with 404 although an upload had stored
\* "f.exe" in that system's directory
C10_Witness ==
    /\ last.op = "download"
    /\ last.status = 404
    /\ \E r \in Named(sistemas, last.req.id) :
          (RecordDir(r) \o <<"f.exe">>) \in DOMAIN files

====
